---- MODULE Spec2Model ----
(***************************************************************************)
(* A model of the mock logging-link service                                *)
(* (mockgcp/mocklogging/logginglink.go: the resource name codec and the    *)
(* LoggingLink / Link request handlers) and of the LoggingLinkSpec field   *)
(* mapper.  logginglink.go holds two versions of the file, each with its   *)
(* own package clause: configService (LoggingLink) and linkService (Link). *)
(* A server is built from one of them.                                     *)
(*                                                                         *)
(* A Go string is a sequence of symbols; the symbol "/" is the separator   *)
(* strings.Split splits on, every other symbol stands for a run of         *)
(* characters without a "/".  A Go pointer is a sequence of length 0 (nil) *)
(* or 1 (the value pointed to).                                            *)
(***************************************************************************)
EXTENDS Integers, Sequences, FiniteSets, TLC

VARIABLES
    service,        \* the version of the file deployed: configService or linkService
    links,          \* storage, kind LoggingLink (configService) or Link: fqn -> record
    buckets,        \* storage, kind LogBucket: name -> record
    now,            \* the latest value time.Now() has returned
    resp,           \* the last request and what its handler returned
    pc,             \* position of the codec / mapper exercise
    input,          \* its input
    output,         \* its result
    inflight,       \* per client: the request it has in flight and where its handler is
    solo            \* per name: the stores as the requests on that name alone leave them

vars == <<service, links, buckets, now, resp, pc, input, output, inflight, solo>>

----------------------------------------------------------------------------
(* Bounds *)

\* time.Now() returns values in 0..MaxTime
MaxTime == 1

\* the strings given to the name codec have up to MaxTokens segments
MaxTokens == 9

----------------------------------------------------------------------------
(* Strings *)

Slash == "/"

\* the string made of one slash-free run of characters
S(sym) == <<sym>>

EmptyString == <<>>

\* strings.Split(s, "/"): the slash-separated pieces of s, at least one
RECURSIVE SplitFrom(_, _, _)
SplitFrom(s, i, cur) ==
    IF i > Len(s) THEN <<cur>>
    ELSE IF s[i] = Slash THEN <<cur>> \o SplitFrom(s, i + 1, <<>>)
    ELSE SplitFrom(s, i + 1, Append(cur, s[i]))

Split(s) == SplitFrom(s, 1, <<>>)

----------------------------------------------------------------------------
(* Errors and results *)

NoError == [code |-> "OK", fmt |-> "", arg |-> EmptyString]

Errorf(code, fmt, arg) == [code |-> code, fmt |-> fmt, arg |-> arg]

\* a Go run-time panic (index out of range, nil dereference, failed type
\* assertion): the handler does not return
Panic(what) == [code |-> "panic", fmt |-> what, arg |-> EmptyString]

----------------------------------------------------------------------------
(* The project resolver *)

\* the ids the project resolver holds a record for
KnownProjects == {S("p1"), S("p2")}

GetProjectByID(id) ==
    IF id \in KnownProjects
    THEN [err |-> NoError, project |-> <<[ID |-> id]>>]
    ELSE [err |-> Errorf("NotFound", "project %q not found", id), project |-> <<>>]

----------------------------------------------------------------------------
(* loggingLinkName *)

ZeroName ==
    [project |-> <<>>, folder |-> EmptyString, organization |-> EmptyString,
     billingAccount |-> EmptyString, location |-> EmptyString,
     BucketName |-> EmptyString, LinkName |-> EmptyString]

Tail4(n) ==
    S("/") \o S("locations") \o S("/") \o n.location \o S("/") \o S("buckets") \o S("/")
        \o n.BucketName \o S("/") \o S("links") \o S("/") \o n.LinkName

\* loggingLinkName.String: [panic |-> BOOLEAN, str |-> the path]
\* String leaving the link id out of the path
String_NoLinkName(n) ==
    [panic |-> FALSE,
     str |-> S("folders") \o S("/") \o n.folder \o S("/") \o S("locations") \o S("/")
                \o n.location \o S("/") \o S("buckets") \o S("/") \o n.BucketName]

String(n) ==
    IF n.organization # EmptyString
    THEN [panic |-> FALSE, str |-> S("organizations") \o S("/") \o n.organization \o Tail4(n)]
    ELSE IF n.folder # EmptyString
    THEN [panic |-> FALSE, str |-> S("folders") \o S("/") \o n.folder \o Tail4(n)]
    ELSE IF n.billingAccount # EmptyString
    THEN [panic |-> FALSE, str |-> S("billingAccounts") \o S("/") \o n.billingAccount \o Tail4(n)]
    ELSE IF n.project = <<>>
    THEN [panic |-> TRUE, str |-> EmptyString]      \* n.project.ID on a nil project
    ELSE [panic |-> FALSE, str |-> S("projects") \o S("/") \o n.project[1].ID \o Tail4(n)]

\* tokens[i] of the Go code is t[i + 1]
Tok(t, i) == t[i + 1]

\* an index expression tokens[i] on a slice too short for it panics
IndexOutOfRange(t, i) == i >= Len(t)

\* the first conjuncts of a branch's condition, up to tokens[4] == "buckets"
ShapePrefix(t, n, kind) ==
    /\ Len(t) = n
    /\ Tok(t, 0) = S(kind)
    /\ Tok(t, 2) = S("locations")
    /\ Tok(t, 4) = S("buckets")

\* what parseLoggingLinkName returns, with the collaborator calls it made
Parsed(e, n, calls) == [err |-> e, name |-> n, calls |-> calls]
ParseOk(n) == Parsed(NoError, n, <<>>)
ParseErr(e) == Parsed(e, ZeroName, <<>>)

\* parseLoggingLinkName: [err, name]
parseLoggingLinkName(name) ==
    LET t == Split(name) IN
    IF ShapePrefix(t, 8, "projects") /\ Tok(t, 6) = S("links")
    THEN LET r == GetProjectByID(Tok(t, 1)) IN
         IF r.err # NoError THEN Parsed(r.err, ZeroName, <<"GetProjectByID">>)
         ELSE Parsed(NoError,
                     [ZeroName EXCEPT !.project = r.project, !.location = Tok(t, 3),
                                      !.BucketName = Tok(t, 5), !.LinkName = Tok(t, 7)],
                     <<"GetProjectByID">>)
    ELSE IF ShapePrefix(t, 8, "folders") /\ Tok(t, 6) = S("links")
    THEN ParseOk([ZeroName EXCEPT !.folder = Tok(t, 1), !.location = Tok(t, 3),
                                  !.BucketName = Tok(t, 5), !.LinkName = Tok(t, 7)])
    ELSE IF ShapePrefix(t, 6, "organizations") /\ IndexOutOfRange(t, 6)
    THEN ParseErr(Panic("index out of range [6] with length 6"))
    ELSE IF ShapePrefix(t, 6, "organizations") /\ Tok(t, 6) = S("links")
    THEN ParseOk([ZeroName EXCEPT !.organization = Tok(t, 1), !.location = Tok(t, 3),
                                  !.BucketName = Tok(t, 5), !.LinkName = Tok(t, 7)])
    ELSE IF ShapePrefix(t, 6, "billingAccounts") /\ IndexOutOfRange(t, 6)
    THEN ParseErr(Panic("index out of range [6] with length 6"))
    ELSE IF ShapePrefix(t, 6, "billingAccounts") /\ Tok(t, 6) = S("links")
    THEN ParseOk([ZeroName EXCEPT !.billingAccount = Tok(t, 1), !.location = Tok(t, 3),
                                  !.BucketName = Tok(t, 5), !.LinkName = Tok(t, 7)])
    ELSE ParseErr(Errorf("InvalidArgument", "name %q is not valid", name))

----------------------------------------------------------------------------
(* Storage: one keyed object store per message kind *)

EmptyStore == [k \in {} |-> 0]

Remove(store, fqn) == [k \in DOMAIN store \ {fqn} |-> store[k]]

StorageGet(store, fqn) ==
    IF fqn \in DOMAIN store
    THEN [err |-> NoError, obj |-> <<store[fqn]>>]
    ELSE [err |-> Errorf("NotFound", "%q not found", fqn), obj |-> <<>>]

StorageCreate(store, fqn, obj) ==
    IF fqn \in DOMAIN store
    THEN [err |-> Errorf("AlreadyExists", "%q already exists", fqn), store |-> store]
    ELSE [err |-> NoError, store |-> (fqn :> obj) @@ store]

StorageUpdate(store, fqn, obj) ==
    IF fqn \in DOMAIN store
    THEN [err |-> NoError, store |-> (fqn :> obj) @@ store]
    ELSE [err |-> Errorf("NotFound", "%q not found", fqn), store |-> store]

StorageDelete(store, fqn) ==
    IF fqn \in DOMAIN store
    THEN [err |-> NoError, store |-> Remove(store, fqn)]
    ELSE [err |-> Errorf("NotFound", "%q not found", fqn), store |-> store]

----------------------------------------------------------------------------
(* Link records *)

\* pb.LifecycleState
LifecycleStates == {"LIFECYCLE_STATE_UNSPECIFIED", "ACTIVE"}

\* the fields of a request body the handlers keep or read
Body(desc, state) == [Description |-> desc, LifecycleState |-> state]

\* a pb.LoggingLink / pb.Link message; a timestamp is a pointer to a time
LinkMsg(name, desc, ct, ut, state) ==
    [Name |-> name, Description |-> desc, CreateTime |-> ct, UpdateTime |-> ut,
     LifecycleState |-> state]

\* proto.Clone of a request body: its set fields, the others zero
CloneBody(body) ==
    LinkMsg(EmptyString, body.Description, <<>>, <<>>, body.LifecycleState)

populateDefaultsForLogBucket(obj) ==
    IF obj.LifecycleState = "LIFECYCLE_STATE_UNSPECIFIED"
    THEN [obj EXCEPT !.LifecycleState = "ACTIVE"]
    ELSE obj

populateDefaultsForLoggingLink(obj) ==
    IF obj.LifecycleState = "LIFECYCLE_STATE_UNSPECIFIED"
    THEN [obj EXCEPT !.LifecycleState = "ACTIVE"]
    ELSE obj

----------------------------------------------------------------------------
(* The default bucket *)

DefaultBucketName(folder) ==
    S("folders") \o S("/") \o folder \o S("/") \o S("locations") \o S("/") \o S("global")
        \o S("/") \o S("buckets") \o S("/") \o S("_Default")

createBucketIfNotExists(bks, bucket) ==
    IF bucket.Name \in DOMAIN bks
    THEN [err |-> NoError, buckets |-> bks, calls |-> <<"Get LogBucket">>]
    ELSE [err |-> NoError, buckets |-> (bucket.Name :> bucket) @@ bks,
          calls |-> <<"Get LogBucket", "Create LogBucket">>]

\* createLinkDefaultObjects leaving the bucket's name unset
createLinkDefaultObjects_Unnamed(bks, name) ==
    createBucketIfNotExists(bks, [Name |-> EmptyString, Description |-> "Default bucket",
                                  LifecycleState |-> "ACTIVE", RetentionDays |-> 30])

\* configService.createLinkDefaultObjects
createLinkDefaultObjects(bks, name) ==
    LET bucket == [Name |-> EmptyString, Description |-> "Default bucket",
                   LifecycleState |-> "ACTIVE", RetentionDays |-> 30]
        named == IF name.folder # EmptyString
                 THEN [bucket EXCEPT !.Name = DefaultBucketName(name.folder)]
                 ELSE bucket
    IN createBucketIfNotExists(bks, named)

----------------------------------------------------------------------------
(* Handlers.  Each returns what the call leaves behind:                     *)
(*   err    the error returned (NoError, an error, or a panic)              *)
(*   obj    the message returned, a pointer                                 *)
(*   store  the link store of the handler's kind after the call            *)
(*   bks    the bucket store after the call                                 *)
(*   t      the latest time.Now() after the call                            *)
(*   calls  the collaborator calls made, in order                           *)

Out(err, obj, store, bks, t, calls) ==
    [err |-> err, obj |-> obj, store |-> store, bks |-> bks, t |-> t, calls |-> calls]

\* GetLoggingLink ensuring the default bucket before it looks at the parse error
GetLoggingLink_DefaultsFirst(store, bks, clock, reqName) ==
    LET p == parseLoggingLinkName(reqName)
        d == createLinkDefaultObjects(bks, p.name)
        c1 == p.calls \o d.calls
    IN
    IF p.err # NoError THEN Out(p.err, <<>>, store, d.buckets, clock, c1)
    ELSE
    LET fqn == String(p.name) IN
    IF fqn.panic THEN Out(Panic("nil pointer dereference"), <<>>, store, d.buckets, clock, c1)
    ELSE
    LET g == StorageGet(store, fqn.str)
        c2 == c1 \o <<"Get LoggingLink">>
    IN
    IF g.err # NoError
    THEN Out(Errorf("NotFound", "Bucket %s does not exist", p.name.BucketName),
             <<>>, store, d.buckets, clock, c2)
    ELSE Out(NoError, g.obj, store, d.buckets, clock, c2)

GetLoggingLink(store, bks, clock, reqName) ==
    LET p == parseLoggingLinkName(reqName)
        c0 == p.calls
    IN
    IF p.err # NoError THEN Out(p.err, <<>>, store, bks, clock, c0)
    ELSE
    LET d == createLinkDefaultObjects(bks, p.name)
        c1 == c0 \o d.calls
    IN
    IF d.err # NoError THEN Out(d.err, <<>>, store, d.buckets, clock, c1)
    ELSE
    LET fqn == String(p.name) IN
    IF fqn.panic THEN Out(Panic("nil pointer dereference"), <<>>, store, d.buckets, clock, c1)
    ELSE
    LET g == StorageGet(store, fqn.str)
        c2 == c1 \o <<"Get LoggingLink">>
    IN
    IF g.err # NoError
    THEN IF g.err.code = "NotFound"
         THEN Out(Errorf("NotFound", "Bucket %s does not exist", p.name.BucketName),
                  <<>>, store, d.buckets, clock, c2)
         ELSE Out(g.err, <<>>, store, d.buckets, clock, c2)
    ELSE Out(NoError, g.obj, store, d.buckets, clock, c2)

\* the name CreateLoggingLink synthesizes
CreateLoggingLinkName(parent, bucketId, linkId) ==
    parent \o S("/") \o S("buckets") \o S("/") \o bucketId \o S("/") \o S("links") \o S("/") \o linkId

\* CreateLoggingLink dropping the error of storage.Create
CreateLoggingLink_IgnoresCreateError(store, bks, clock, reqName, body, t) ==
    LET p == parseLoggingLinkName(reqName) IN
    IF p.err # NoError THEN Out(p.err, <<>>, store, bks, clock, p.calls)
    ELSE
    LET d == createLinkDefaultObjects(bks, p.name)
        fqn == String(p.name)
    IN
    IF fqn.panic
    THEN Out(Panic("nil pointer dereference"), <<>>, store, d.buckets, clock, p.calls \o d.calls)
    ELSE
    LET obj == populateDefaultsForLogBucket(
                   [CloneBody(body) EXCEPT !.Name = fqn.str, !.CreateTime = <<t>>,
                                           !.UpdateTime = <<t>>])
        c == StorageCreate(store, fqn.str, obj)
    IN
    Out(NoError, <<obj>>, c.store, d.buckets, t, p.calls \o d.calls \o <<"Create LoggingLink">>)

CreateLoggingLink(store, bks, clock, reqName, body, t) ==
    LET p == parseLoggingLinkName(reqName)
        c0 == p.calls
    IN
    IF p.err # NoError THEN Out(p.err, <<>>, store, bks, clock, c0)
    ELSE
    LET d == createLinkDefaultObjects(bks, p.name)
        c1 == c0 \o d.calls
    IN
    IF d.err # NoError THEN Out(d.err, <<>>, store, d.buckets, clock, c1)
    ELSE
    LET fqn == String(p.name) IN
    IF fqn.panic THEN Out(Panic("nil pointer dereference"), <<>>, store, d.buckets, clock, c1)
    ELSE
    LET obj == populateDefaultsForLogBucket(
                   [CloneBody(body) EXCEPT !.Name = fqn.str, !.CreateTime = <<t>>,
                                           !.UpdateTime = <<t>>])
        c == StorageCreate(store, fqn.str, obj)
        c2 == c1 \o <<"Create LoggingLink">>
    IN
    IF c.err # NoError THEN Out(c.err, <<>>, store, d.buckets, t, c2)
    ELSE Out(NoError, <<obj>>, c.store, d.buckets, t, c2)

\* the dynamic type of proto.Clone(existing) in UpdateLoggingLink, and the
\* type its result is asserted to have
ClonedType == "LoggingLink"
AssertedType == "LogBucket"

\* the mask loop: the first path that is not recognized, as a pointer
RECURSIVE FirstBadPath(_)
FirstBadPath(paths) ==
    IF paths = <<>> THEN <<>>
    ELSE IF Head(paths) = "description" THEN FirstBadPath(Tail(paths))
    ELSE <<Head(paths)>>

\* the mask loop's effect on the working copy, up to the first bad path
RECURSIVE ApplyPaths(_, _, _)
ApplyPaths(updated, paths, body) ==
    IF paths = <<>> THEN updated
    ELSE IF Head(paths) = "description"
    THEN ApplyPaths([updated EXCEPT !.Description = body.Description], Tail(paths), body)
    ELSE updated

UpdateLoggingLink(store, bks, clock, reqName, body, paths, t) ==
    LET p == parseLoggingLinkName(reqName)
        c0 == p.calls
    IN
    IF p.err # NoError THEN Out(p.err, <<>>, store, bks, clock, c0)
    ELSE
    LET d == createLinkDefaultObjects(bks, p.name)
        c1 == c0 \o d.calls
    IN
    IF d.err # NoError THEN Out(d.err, <<>>, store, d.buckets, clock, c1)
    ELSE
    LET fqn == String(p.name) IN
    IF fqn.panic THEN Out(Panic("nil pointer dereference"), <<>>, store, d.buckets, clock, c1)
    ELSE
    LET g == StorageGet(store, fqn.str)
        c2 == c1 \o <<"Get LoggingLink">>
    IN
    IF g.err # NoError THEN Out(g.err, <<>>, store, d.buckets, clock, c2)
    ELSE IF ClonedType # AssertedType
    THEN Out(Panic("interface conversion"), <<>>, store, d.buckets, t, c2)
    ELSE
    LET existing == g.obj[1]
        updated == [existing EXCEPT !.CreateTime = existing.CreateTime, !.UpdateTime = <<t>>]
        bad == FirstBadPath(paths)
    IN
    IF Len(paths) = 0
    THEN Out(Errorf("InvalidArgument", "update_mask is required", EmptyString),
             <<>>, store, d.buckets, t, c2)
    ELSE IF bad # <<>>
    THEN Out(Errorf("InvalidArgument", "update_mask path %q not valid", S(bad[1])),
             <<>>, store, d.buckets, t, c2)
    ELSE
    LET final == populateDefaultsForLoggingLink(ApplyPaths(updated, paths, body))
        u == StorageUpdate(store, fqn.str, final)
        c3 == c2 \o <<"Update LoggingLink">>
    IN
    IF u.err # NoError THEN Out(u.err, <<>>, store, d.buckets, t, c3)
    ELSE Out(NoError, <<final>>, u.store, d.buckets, t, c3)

DeleteLoggingLink(store, bks, clock, reqName) ==
    LET p == parseLoggingLinkName(reqName)
        c0 == p.calls
    IN
    IF p.err # NoError THEN Out(p.err, <<>>, store, bks, clock, c0)
    ELSE
    LET d == createLinkDefaultObjects(bks, p.name)
        c1 == c0 \o d.calls
    IN
    IF d.err # NoError THEN Out(d.err, <<>>, store, d.buckets, clock, c1)
    ELSE
    LET fqn == String(p.name) IN
    IF fqn.panic THEN Out(Panic("nil pointer dereference"), <<>>, store, d.buckets, clock, c1)
    ELSE
    LET x == StorageDelete(store, fqn.str)
        c2 == c1 \o <<"Delete LoggingLink">>
    IN
    IF x.err # NoError THEN Out(x.err, <<>>, store, d.buckets, clock, c2)
    ELSE Out(NoError, <<>>, x.store, d.buckets, clock, c2)

(* linkService: the same handlers without the default bucket *)

GetLink(store, bks, clock, reqName) ==
    LET p == parseLoggingLinkName(reqName)
        c0 == p.calls
    IN
    IF p.err # NoError THEN Out(p.err, <<>>, store, bks, clock, c0)
    ELSE
    LET fqn == String(p.name) IN
    IF fqn.panic THEN Out(Panic("nil pointer dereference"), <<>>, store, bks, clock, c0)
    ELSE
    LET g == StorageGet(store, fqn.str)
        c1 == c0 \o <<"Get Link">>
    IN
    IF g.err # NoError
    THEN IF g.err.code = "NotFound"
         THEN Out(Errorf("NotFound", "Bucket %s does not exist", p.name.BucketName),
                  <<>>, store, bks, clock, c1)
         ELSE Out(g.err, <<>>, store, bks, clock, c1)
    ELSE Out(NoError, g.obj, store, bks, clock, c1)

\* the name CreateLink synthesizes
CreateLinkName(parent, linkId) == parent \o S("/") \o S("links") \o S("/") \o linkId

CreateLink(store, bks, clock, reqName, body, t) ==
    LET p == parseLoggingLinkName(reqName)
        c0 == p.calls
    IN
    IF p.err # NoError THEN Out(p.err, <<>>, store, bks, clock, c0)
    ELSE
    LET fqn == String(p.name) IN
    IF fqn.panic THEN Out(Panic("nil pointer dereference"), <<>>, store, bks, clock, c0)
    ELSE
    LET obj == [CloneBody(body) EXCEPT !.Name = fqn.str, !.CreateTime = <<t>>]
        c == StorageCreate(store, fqn.str, obj)
        c1 == c0 \o <<"Create Link">>
    IN
    IF c.err # NoError THEN Out(c.err, <<>>, store, bks, t, c1)
    ELSE Out(NoError, <<obj>>, c.store, bks, t, c1)

DeleteLink(store, bks, clock, reqName) ==
    LET p == parseLoggingLinkName(reqName)
        c0 == p.calls
    IN
    IF p.err # NoError THEN Out(p.err, <<>>, store, bks, clock, c0)
    ELSE
    LET fqn == String(p.name) IN
    IF fqn.panic THEN Out(Panic("nil pointer dereference"), <<>>, store, bks, clock, c0)
    ELSE
    LET x == StorageDelete(store, fqn.str)
        c1 == c0 \o <<"Delete Link">>
    IN
    IF x.err # NoError THEN Out(x.err, <<>>, store, bks, clock, c1)
    ELSE Out(NoError, <<>>, x.store, bks, clock, c1)

----------------------------------------------------------------------------
(* Requests *)

\* the path with these segments
RECURSIVE Path(_)
Path(segs) ==
    IF Len(segs) = 0 THEN EmptyString
    ELSE IF Len(segs) = 1 THEN segs[1]
    ELSE segs[1] \o S("/") \o Path(Tail(segs))

\* Create parents of the LoggingLink service: .../locations/global
Parents ==
    { Path(<<S("projects"), S("p1"), S("locations"), S("global")>>),
      Path(<<S("projects"), S("unknown-proj"), S("locations"), S("global")>>),
      Path(<<S("folders"), S("f1"), S("locations"), S("global")>>),
      Path(<<S("organizations"), S("o1"), S("locations"), S("global")>>),
      Path(<<S("billingAccounts"), S("ba1"), S("locations"), S("global")>>) }

BucketIds == {S("b")}
LinkIds == {S("l1")}

\* the names with all four key words in place
ShapedNames ==
    { CreateLoggingLinkName(par, b, l) : par \in Parents, b \in BucketIds, l \in LinkIds }

\* names of other shapes
OtherNames ==
    { Path(<<S("bogus"), S("path")>>),
      Path(<<S("organizations"), S("o1"), S("locations"), S("global"), S("buckets"), S("b")>>),
      Path(<<S("folders"), EmptyString, S("locations"), S("global"), S("buckets"), S("b"),
             S("links"), S("l1")>>) }

ReqNames == ShapedNames \cup OtherNames

\* Create parents of the Link service: .../locations/global/buckets/b
LinkParents == { par \o S("/") \o S("buckets") \o S("/") \o S("b") : par \in Parents }

LinkReqNames == { CreateLinkName(par, l) : par \in LinkParents, l \in LinkIds } \cup OtherNames

Descriptions == {"d1", "d2"}

Bodies == { Body(d, st) : d \in Descriptions, st \in LifecycleStates }

Masks == { <<>>, <<"description">>, <<"unknownField">>, <<"description", "unknownField">> }

NoBody == Body("", "LIFECYCLE_STATE_UNSPECIFIED")

\* the record of a request and of what its handler did
\* (before: the record stored under the name when the request arrived;
\* wroteLinks, wroteBuckets: whether the call changed that store)
Response(svc, op, name, body, paths, before, o, wroteLinks, wroteBuckets) ==
    [svc |-> svc, op |-> op, name |-> name, body |-> body, paths |-> paths,
     before |-> before, err |-> o.err, obj |-> o.obj, calls |-> o.calls,
     wroteLinks |-> wroteLinks, wroteBuckets |-> wroteBuckets]

Stored(store, name) == IF name \in DOMAIN store THEN <<store[name]>> ELSE <<>>

Idle ==
    [svc |-> "", op |-> "", name |-> EmptyString, body |-> NoBody, paths |-> <<>>,
     before |-> <<>>, err |-> NoError, obj |-> <<>>, calls |-> <<>>,
     wroteLinks |-> FALSE, wroteBuckets |-> FALSE]

\* the callers whose requests may overlap
Clients == {"c1", "c2"}

\* two links of one bucket of one folder: their requests share the folder's
\* default bucket
ConcNames ==
    { Path(<<S("folders"), S("f1"), S("locations"), S("global"), S("buckets"), S("b"),
             S("links"), S("l1")>>),
      Path(<<S("folders"), S("f1"), S("locations"), S("global"), S("buckets"), S("b"),
             S("links"), S("l2")>>) }

\* a client with no request in flight; out is what its last request returned,
\* alone what that request returns when only the requests on its name are served
NoRequest ==
    [stage |-> "idle", op |-> "", name |-> EmptyString, out |-> <<>>, alone |-> <<>>]

NoRequests ==
    /\ inflight = [c \in Clients |-> NoRequest]
    /\ solo = [n \in ConcNames |-> [links |-> EmptyStore, bks |-> EmptyStore]]

----------------------------------------------------------------------------
(* The service *)

Services == {"configService", "linkService"}

ServiceInit ==
    /\ service \in Services
    /\ links = EmptyStore
    /\ buckets = EmptyStore
    /\ now = 0
    /\ resp = Idle
    /\ NoRequests

PureIdle ==
    /\ pc = "idle"
    /\ input = <<>>
    /\ output = <<>>

Init == ServiceInit /\ PureIdle

\* a handler has run
HandlerDone(op, name, body, paths, o) ==
    /\ links' = o.store
    /\ buckets' = o.bks
    /\ now' = o.t
    /\ resp' = Response(service, op, name, body, paths, Stored(links, name), o,
                         o.store # links, o.bks # buckets)
    /\ UNCHANGED <<service, pc, input, output, inflight, solo>>

DoGetLoggingLink ==
    /\ service = "configService"
    /\ \E n \in ReqNames :
        HandlerDone("Get", n, NoBody, <<>>, GetLoggingLink(links, buckets, now, n))

DoCreateLoggingLink ==
    /\ service = "configService"
    /\ \E par \in Parents \cup {S("bogus")}, b \in BucketIds, l \in LinkIds, body \in Bodies,
          t \in now..MaxTime :
        LET n == CreateLoggingLinkName(par, b, l) IN
        HandlerDone("Create", n, body, <<>>,
                    CreateLoggingLink(links, buckets, now, n, body, t))

DoUpdateLoggingLink ==
    /\ service = "configService"
    /\ \E n \in ReqNames, d \in Descriptions, paths \in Masks, t \in now..MaxTime :
        LET body == Body(d, "LIFECYCLE_STATE_UNSPECIFIED") IN
        HandlerDone("Update", n, body, paths,
                    UpdateLoggingLink(links, buckets, now, n, body, paths, t))

DoDeleteLoggingLink ==
    /\ service = "configService"
    /\ \E n \in ReqNames :
        HandlerDone("Delete", n, NoBody, <<>>, DeleteLoggingLink(links, buckets, now, n))

DoGetLink ==
    /\ service = "linkService"
    /\ \E n \in LinkReqNames :
        HandlerDone("Get", n, NoBody, <<>>, GetLink(links, buckets, now, n))

DoCreateLink ==
    /\ service = "linkService"
    /\ \E par \in LinkParents \cup {S("bogus")}, l \in LinkIds, body \in Bodies,
          t \in now..MaxTime :
        LET n == CreateLinkName(par, l) IN
        HandlerDone("Create", n, body, <<>>, CreateLink(links, buckets, now, n, body, t))

DoDeleteLink ==
    /\ service = "linkService"
    /\ \E n \in LinkReqNames :
        HandlerDone("Delete", n, NoBody, <<>>, DeleteLink(links, buckets, now, n))

Next ==
    \/ DoGetLoggingLink
    \/ DoCreateLoggingLink
    \/ DoUpdateLoggingLink
    \/ DoDeleteLoggingLink
    \/ DoGetLink
    \/ DoCreateLink
    \/ DoDeleteLink

Spec == Init /\ [][Next]_vars

----------------------------------------------------------------------------
(* Overlapping requests.  A handler runs in its caller's thread with no     *)
(* lock; what it shares with the other handlers is the storage, one call at *)
(* a time.  A handler is therefore three steps: parse the name, ensure the  *)
(* default bucket (configService), and the rest, which makes its one call   *)
(* to the link store.                                                       *)

\* the RPCs of each version of the file
Ops(svc) == IF svc = "configService" THEN {"Get", "Create", "Update", "Delete"}
            ELSE {"Get", "Create", "Delete"}

\* the body a client sends with Create and Update
BodyOf(c) == Body(IF c = "c1" THEN "d1" ELSE "d2", "LIFECYCLE_STATE_UNSPECIFIED")

\* the handler of op in version svc
Handle(svc, op, store, bks, clock, n, body) ==
    IF svc = "configService"
    THEN CASE op = "Get"    -> GetLoggingLink(store, bks, clock, n)
           [] op = "Create" -> CreateLoggingLink(store, bks, clock, n, body, clock)
           [] op = "Update" -> UpdateLoggingLink(store, bks, clock, n, body,
                                                 <<"description">>, clock)
           [] op = "Delete" -> DeleteLoggingLink(store, bks, clock, n)
    ELSE CASE op = "Get"    -> GetLink(store, bks, clock, n)
           [] op = "Create" -> CreateLink(store, bks, clock, n, body, clock)
           [] op = "Delete" -> DeleteLink(store, bks, clock, n)

\* what a handler hands back to its caller
Returned(o) == <<[err |-> o.err, obj |-> o.obj]>>

Failed(e) == <<[err |-> e, obj |-> <<>>]>>

\* a client calls an RPC; the handler parses the name
Issue(c) ==
    /\ inflight[c].stage = "idle"
    /\ \E op \in Ops(service), n \in ConcNames :
        LET p == parseLoggingLinkName(n) IN
        inflight' = [inflight EXCEPT ![c] =
            IF p.err # NoError
            THEN [stage |-> "idle", op |-> op, name |-> n,
                  out |-> Failed(p.err), alone |-> Failed(p.err)]
            ELSE [stage |-> IF service = "configService" THEN "defaults" ELSE "link",
                  op |-> op, name |-> n, out |-> <<>>, alone |-> <<>>]]
    /\ UNCHANGED <<service, links, buckets, now, resp, pc, input, output, solo>>

\* the handler's call of createLinkDefaultObjects
EnsureDefaults(c) ==
    /\ inflight[c].stage = "defaults"
    /\ LET n == inflight[c].name
           p == parseLoggingLinkName(n)
           d == createLinkDefaultObjects(buckets, p.name)
           a == createLinkDefaultObjects(solo[n].bks, p.name)
       IN
       /\ buckets' = d.buckets
       /\ solo' = [solo EXCEPT ![n].bks = a.buckets]
       /\ inflight' = [inflight EXCEPT ![c] =
             IF d.err # NoError
             THEN [@ EXCEPT !.stage = "idle", !.out = Failed(d.err),
                            !.alone = Failed(a.err)]
             ELSE [@ EXCEPT !.stage = "link"]]
    /\ UNCHANGED <<service, links, now, resp, pc, input, output>>

\* the rest of the handler: its call to the link store and its return
LinkCall(c) ==
    /\ inflight[c].stage = "link"
    /\ LET n == inflight[c].name
           o == Handle(service, inflight[c].op, links, buckets, now, n, BodyOf(c))
           a == Handle(service, inflight[c].op, solo[n].links, solo[n].bks, now, n, BodyOf(c))
       IN
       /\ links' = o.store
       /\ buckets' = o.bks
       /\ solo' = [solo EXCEPT ![n] = [links |-> a.store, bks |-> a.bks]]
       /\ inflight' = [inflight EXCEPT ![c] =
             [@ EXCEPT !.stage = "idle", !.out = Returned(o), !.alone = Returned(a)]]
    /\ UNCHANGED <<service, now, resp, pc, input, output>>

ConcurrentNext ==
    \/ \E c \in Clients : Issue(c)
    \/ \E c \in Clients : EnsureDefaults(c)
    \/ \E c \in Clients : LinkCall(c)

SpecConcurrent == Init /\ [][ConcurrentNext]_vars

----------------------------------------------------------------------------
(* The name codec on its own: String, then parseLoggingLinkName on the      *)
(* result; and parseLoggingLinkName on arbitrary strings                    *)

NoService ==
    /\ service = "none"
    /\ links = EmptyStore
    /\ buckets = EmptyStore
    /\ now = 0
    /\ resp = Idle
    /\ NoRequests

\* a loggingLinkName of the given parent kind
Identity(kind, id, loc, bucket, link) ==
    [project |-> IF kind = "projects" THEN <<[ID |-> id]>> ELSE <<>>,
     folder |-> IF kind = "folders" THEN id ELSE EmptyString,
     organization |-> IF kind = "organizations" THEN id ELSE EmptyString,
     billingAccount |-> IF kind = "billingAccounts" THEN id ELSE EmptyString,
     location |-> loc, BucketName |-> bucket, LinkName |-> link]

\* identities with one parent kind and no empty segment; a project identity
\* holds a record of the resolver
Identities ==
    { Identity(k, id, loc, b, l) :
        k \in {"projects", "folders", "organizations", "billingAccounts"},
        id \in KnownProjects, loc \in {S("global"), S("us")}, b \in {S("b")},
        l \in {S("l1"), S("l2")} }

\* the i-th segment of a path of the given parent kind
Canon(kind, i) ==
    CASE i = 1 -> S(kind)
      [] i = 2 -> S("p1")
      [] i = 3 -> S("locations")
      [] i = 4 -> S("global")
      [] i = 5 -> S("buckets")
      [] i = 6 -> S("b")
      [] i = 7 -> S("links")
      [] i = 8 -> S("l1")
      [] OTHER -> S("extra")

\* paths of n segments, with segment m (if any) replaced
TestStrings ==
    { Path([i \in 1..n |-> IF i = m THEN r ELSE Canon(k, i)]) :
        k \in {"projects", "folders", "organizations", "billingAccounts", "bogus"},
        n \in 1..MaxTokens, m \in 0..MaxTokens,
        r \in {S("x"), EmptyString, S("unknown-proj")} }

CodecInput(isName, n, str) == [isName |-> isName, name |-> n, str |-> str]

CodecOutput(str, res) == [str |-> str, res |-> res]

CodecInit ==
    /\ NoService
    /\ pc = "start"
    /\ input \in { CodecInput(TRUE, n, EmptyString) : n \in Identities }
                    \cup { CodecInput(FALSE, ZeroName, str) : str \in TestStrings }
    /\ output = CodecOutput(EmptyString, ParseOk(ZeroName))

Render ==
    /\ pc = "start"
    /\ input.isName
    /\ ~String(input.name).panic
    /\ output' = CodecOutput(String(input.name).str, ParseOk(ZeroName))
    /\ pc' = "rendered"
    /\ UNCHANGED <<service, links, buckets, now, resp, input, inflight, solo>>

ParseRendered ==
    /\ pc = "rendered"
    /\ output' = CodecOutput(output.str, parseLoggingLinkName(output.str))
    /\ pc' = "roundtrip"
    /\ UNCHANGED <<service, links, buckets, now, resp, input, inflight, solo>>

ParseString ==
    /\ pc = "start"
    /\ ~input.isName
    /\ output' = CodecOutput(input.str, parseLoggingLinkName(input.str))
    /\ pc' = "parsed"
    /\ UNCHANGED <<service, links, buckets, now, resp, input, inflight, solo>>

CodecNext == Render \/ ParseRendered \/ ParseString

SpecCodec == CodecInit /\ [][CodecNext]_vars

----------------------------------------------------------------------------
(* The LoggingLinkSpec field mapper.  A message is a record of the members  *)
(* the mapper names: an accessor GetX() reads member X, and a member that   *)
(* nothing has written holds its zero value.                                *)

\* direct.LazyPtr: nil for the zero value, else a pointer to the value
LazyPtr(v, zero) == IF v = zero THEN <<>> ELSE <<v>>

\* direct.ValueOf: the zero value for nil, else the value pointed to
ValueOf(ptr, zero) == IF ptr = <<>> THEN zero ELSE ptr[1]

\* the RFC 3339 text of the times 0, 1, ...
TimeText == <<"1970-01-01T00:00:00Z", "1970-01-01T00:00:01Z">>

\* direct.StringTimestamp_FromProto
StringTimestamp_FromProto(ts) ==
    IF ts = <<>> THEN <<>> ELSE <<S(TimeText[ts[1] + 1])>>

\* direct.StringTimestamp_ToProto: nil for nil and for text that does not parse
StringTimestamp_ToProto(str) ==
    IF str = <<>> THEN <<>>
    ELSE LET hit == { i \in DOMAIN TimeText : S(TimeText[i]) = str[1] } IN
         IF hit = {} THEN <<>> ELSE <<(CHOOSE i \in hit : TRUE) - 1>>

\* direct.Enum_FromProto: the name of the enum value
Enum_FromProto(v) == <<S(v)>>

\* direct.Enum_ToProto: the value of that name, the zero value for nil or an
\* unknown name
Enum_ToProto(ptr) ==
    IF ptr = <<>> THEN "LIFECYCLE_STATE_UNSPECIFIED"
    ELSE LET hit == { v \in LifecycleStates : S(v) = ptr[1] } IN
         IF hit = {} THEN "LIFECYCLE_STATE_UNSPECIFIED" ELSE CHOOSE v \in hit : TRUE

\* a zero pb.BigQueryDataset / pb.Link / krm.BigQueryDataset / krm.LoggingLinkSpec
ZeroPbDataset == [DatasetId |-> EmptyString]
ZeroKrmDataset == [DatasetID |-> <<>>]

ZeroPbLink ==
    [Name |-> EmptyString, Description |-> EmptyString, CreateTime |-> <<>>,
     LifecycleState |-> "LIFECYCLE_STATE_UNSPECIFIED", BigqueryDataset |-> <<>>,
     LifeCycleState |-> "LIFECYCLE_STATE_UNSPECIFIED", BigQueryDataset |-> <<>>]

ZeroKrmSpec ==
    [Name |-> <<>>, Description |-> <<>>, CreateTime |-> <<>>, LifecycleState |-> <<>>,
     BigqueryDataset |-> <<>>, LifeCycleState |-> <<>>]

BigQueryDataset_FromProto(in) ==
    IF in = <<>> THEN <<>>
    ELSE <<[ZeroKrmDataset EXCEPT !.DatasetID = LazyPtr(in[1].DatasetId, EmptyString)]>>

BigQueryDataset_ToProto(in) ==
    IF in = <<>> THEN <<>>
    ELSE <<[ZeroPbDataset EXCEPT !.DatasetId = ValueOf(in[1].DatasetID, EmptyString)]>>

LoggingLinkSpec_FromProto(in) ==
    IF in = <<>> THEN <<>>
    ELSE <<[ZeroKrmSpec EXCEPT
              !.Name = LazyPtr(in[1].Name, EmptyString),
              !.Description = LazyPtr(in[1].Description, EmptyString),
              !.CreateTime = StringTimestamp_FromProto(in[1].CreateTime),
              !.LifecycleState = Enum_FromProto(in[1].LifeCycleState),
              !.BigqueryDataset = BigQueryDataset_FromProto(in[1].BigQueryDataset)]>>

LoggingLinkSpec_ToProto(in) ==
    IF in = <<>> THEN <<>>
    ELSE <<[ZeroPbLink EXCEPT
              !.Name = ValueOf(in[1].Name, EmptyString),
              !.Description = ValueOf(in[1].Description, EmptyString),
              !.CreateTime = StringTimestamp_ToProto(in[1].CreateTime),
              !.LifecycleState = Enum_ToProto(in[1].LifeCycleState),
              !.BigqueryDataset = BigQueryDataset_ToProto(in[1].BigqueryDataset)]>>

OptionalStrings == {<<>>, <<EmptyString>>, <<S("v")>>}

\* well-formed domain objects: each member unset or set to a value of its type
DomainObjects ==
    {<<>>} \cup
    { <<[Name |-> n, Description |-> d, CreateTime |-> ct, LifecycleState |-> ls,
         BigqueryDataset |-> bq, LifeCycleState |-> ls]>> :
        n \in OptionalStrings, d \in {<<>>, <<S("d1")>>},
        ct \in {<<>>} \cup { <<S(TimeText[i])>> : i \in DOMAIN TimeText },
        ls \in {<<>>} \cup { <<S(v)>> : v \in LifecycleStates },
        bq \in {<<>>} \cup { <<[DatasetID |-> id]>> : id \in OptionalStrings } }

MapperOutput(first, back, second) == [first |-> first, back |-> back, second |-> second]

MapperInit ==
    /\ NoService
    /\ pc = "start"
    /\ input \in DomainObjects
    /\ output = MapperOutput(<<>>, <<>>, <<>>)

ToProtoFirst ==
    /\ pc = "start"
    /\ output' = [output EXCEPT !.first = LoggingLinkSpec_ToProto(input)]
    /\ pc' = "proto"
    /\ UNCHANGED <<service, links, buckets, now, resp, input, inflight, solo>>

FromProtoBack ==
    /\ pc = "proto"
    /\ output' = [output EXCEPT !.back = LoggingLinkSpec_FromProto(output.first)]
    /\ pc' = "krm"
    /\ UNCHANGED <<service, links, buckets, now, resp, input, inflight, solo>>

ToProtoSecond ==
    /\ pc = "krm"
    /\ output' = [output EXCEPT !.second = LoggingLinkSpec_ToProto(output.back)]
    /\ pc' = "done"
    /\ UNCHANGED <<service, links, buckets, now, resp, input, inflight, solo>>

MapperNext == ToProtoFirst \/ FromProtoBack \/ ToProtoSecond

SpecMapper == MapperInit /\ [][MapperNext]_vars

----------------------------------------------------------------------------
(* The resource path grammar, as the interface documents it *)

ParentKinds == {"projects", "folders", "organizations", "billingAccounts"}

\* {kind}/{id}/locations/{loc}/buckets/{bucket}/links/{link}
AcceptedShape(n) ==
    LET t == Split(n) IN
    /\ Len(t) = 8
    /\ \E k \in ParentKinds : t[1] = S(k)
    /\ t[3] = S("locations")
    /\ t[5] = S("buckets")
    /\ t[7] = S("links")

\* an accepted shape with no empty segment
WellFormedName(n) ==
    /\ AcceptedShape(n)
    /\ \A i \in {2, 4, 6, 8} : Split(n)[i] # EmptyString

\* a project path whose project the resolver does not know
UnknownProjectName(n) ==
    /\ AcceptedShape(n)
    /\ Split(n)[1] = S("projects")
    /\ Split(n)[2] \notin KnownProjects

\* a well-formed project path of a known project, or a well-formed folder path
ResolvableName(n) ==
    /\ WellFormedName(n)
    /\ \/ Split(n)[1] = S("folders")
       \/ Split(n)[1] = S("projects") /\ Split(n)[2] \in KnownProjects

Range(f) == { f[i] : i \in DOMAIN f }

StorageCalls ==
    { "Get LogBucket", "Create LogBucket", "Get LoggingLink", "Create LoggingLink",
      "Update LoggingLink", "Delete LoggingLink", "Get Link", "Create Link", "Delete Link" }

----------------------------------------------------------------------------
(* Claims about the service *)

\* C3: a Get that immediately follows a successful Create of the same name
\* returns a record with that name, the description of the Create body, and
\* lifecycle state ACTIVE when the body left it unspecified (both services).
C3_CreateThenGet ==
    [][ ( /\ resp.op = "Create" /\ resp.err = NoError
          /\ resp'.op = "Get" /\ resp'.name = resp.name )
        => ( /\ resp'.err = NoError
             /\ resp'.obj # <<>>
             /\ resp'.obj[1].Name = resp.name
             /\ resp'.obj[1].Description = resp.body.Description
             /\ ( resp.body.LifecycleState = "LIFECYCLE_STATE_UNSPECIFIED"
                    => resp'.obj[1].LifecycleState = "ACTIVE" ) ) ]_vars

\* C4: Update with mask ["description"] on a stored link succeeds and changes
\* only the description (to the body's); name, lifecycle state and creation
\* time stay, and the modification time becomes the time of the call, not
\* earlier than it was.
C4_UpdateDescriptionOnly ==
    ( /\ resp.op = "Update" /\ resp.paths = <<"description">> /\ resp.before # <<>> )
    => ( /\ resp.err = NoError
         /\ resp.name \in DOMAIN links
         /\ links[resp.name] =
                [resp.before[1] EXCEPT !.Description = resp.body.Description,
                                       !.UpdateTime = <<now>>]
         /\ resp.before[1].UpdateTime # <<>> => resp.before[1].UpdateTime[1] <= now )

\* C5: Update of a stored link whose mask holds an unrecognized path fails with
\* InvalidArgument naming the first such path, and the stored record stays.
C5_BadPathRejected ==
    ( /\ resp.op = "Update" /\ FirstBadPath(resp.paths) # <<>> /\ resp.before # <<>> )
    => ( /\ resp.err = Errorf("InvalidArgument", "update_mask path %q not valid",
                              S(FirstBadPath(resp.paths)[1]))
         /\ Stored(links, resp.name) = resp.before )

\* C6: Update with an empty mask fails with InvalidArgument "update_mask is
\* required" for every well-formed name, stored or not, and changes no link
\* (stated here for project and folder names whose parent resolves).
C6_EmptyMaskRejected ==
    ( /\ resp.op = "Update" /\ resp.paths = <<>> /\ ResolvableName(resp.name) )
    => ( /\ resp.err = Errorf("InvalidArgument", "update_mask is required", EmptyString)
         /\ ~resp.wroteLinks )

\* C7: Delete on a well-formed name with no stored record fails with NotFound
\* and changes no link; on a stored name it succeeds and removes the record.
C7_Delete ==
    ( /\ resp.op = "Delete" /\ WellFormedName(resp.name) )
    => IF resp.before = <<>>
       THEN resp.err.code = "NotFound" /\ ~resp.wroteLinks
       ELSE resp.err = NoError /\ resp.name \notin DOMAIN links

C9_UnknownProject ==
    /\ ( resp.op # "" /\ UnknownProjectName(resp.name) )
         => ( /\ resp.err = GetProjectByID(Split(resp.name)[2]).err
              /\ resp.err.code = "NotFound"
              /\ resp.obj = <<>>
              /\ Range(resp.calls) \cap StorageCalls = {}
              /\ ~resp.wroteLinks /\ ~resp.wroteBuckets )
    /\ ( resp.op # "" /\ Split(resp.name)[1] # S("projects") )
         => "GetProjectByID" \notin Range(resp.calls)

\* an Update of a link under an unknown project has been answered, and so has
\* a request on a folder path
C9_Witness ==
    /\ resp.op = "Update"
    /\ UnknownProjectName(resp.name)
    /\ resp.err.code = "NotFound"
    /\ buckets # EmptyStore

----------------------------------------------------------------------------
(* Claims about the name codec *)

\* C1: for an identity of any of the four parent kinds, parsing the string
\* that String renders succeeds and gives back the identity.
C1_ParseRender ==
    pc = "roundtrip" => ( output.res.err = NoError /\ output.res.name = input.name )

\* C2: a string of none of the four accepted shapes is answered with
\* InvalidArgument carrying the string: no identity, no other error, no abort.
C2_InvalidArgument ==
    ( pc = "parsed" /\ ~AcceptedShape(input.str) )
    => ( /\ output.res.err = Errorf("InvalidArgument", "name %q is not valid", input.str)
         /\ output.res.name = ZeroName )

----------------------------------------------------------------------------
(* Claims about the field mapper *)

\* C10: for every well-formed domain object x,
\* ToProto(FromProto(ToProto(x))) equals ToProto(x).
C10_RoundTrip ==
    pc = "done" => output.second = output.first

----------------------------------------------------------------------------
(* Claims about the default bucket *)

BucketCalls == {"Get LogBucket", "Create LogBucket"}

\* the bucket store was consulted, and before any call to the link store
BucketEnsuredFirst(calls) ==
    /\ "Get LogBucket" \in Range(calls)
    /\ \A i, j \in DOMAIN calls :
         ( calls[i] \in BucketCalls /\ calls[j] \in StorageCalls \ BucketCalls ) => i < j

\* C12: in the LoggingLink service, after a request whose name parsed to a
\* folder f (a non-empty folder id), the bucket
\* folders/{f}/locations/global/buckets/_Default exists with the default
\* contents; the request ensured it before it read or wrote the link store,
\* creating it when it was missing; and no request removes or changes a
\* bucket that exists.
C12_DefaultBucket ==
    [][ /\ \A k \in DOMAIN buckets : k \in DOMAIN buckets' /\ buckets'[k] = buckets[k]
        /\ LET p == parseLoggingLinkName(resp'.name) IN
           ( /\ resp'.svc = "configService"
             /\ p.err = NoError
             /\ p.name.folder # EmptyString )
           => LET b == DefaultBucketName(p.name.folder) IN
              /\ b \in DOMAIN buckets'
              /\ buckets'[b] = [Name |-> b, Description |-> "Default bucket",
                                LifecycleState |-> "ACTIVE", RetentionDays |-> 30]
              /\ BucketEnsuredFirst(resp'.calls)
              /\ b \notin DOMAIN buckets => "Create LogBucket" \in Range(resp'.calls)
              /\ b \in DOMAIN buckets => ~resp'.wroteBuckets ]_vars

\* a repeated request on a folder's link: the bucket was there already, and the
\* link store was read after it had been looked up
C12_Witness ==
    /\ resp.svc = "configService"
    /\ resp.op = "Get"
    /\ resp.err = NoError
    /\ parseLoggingLinkName(resp.name).name.folder = S("f1")
    /\ DefaultBucketName(S("f1")) \in DOMAIN buckets
    /\ ~resp.wroteBuckets
    /\ resp.calls = <<"Get LogBucket", "Get LoggingLink">>

----------------------------------------------------------------------------
(* Claims about overlapping requests *)

====
